---------------------------- MODULE Spec2Model ----------------------------
(* A model of terraform-provider-temporal:                                  *)
(*   internal/provider/provider.go            TemporalProvider.Configure    *)
(*   internal/provider/namespace_resource.go  NamespaceResource handlers    *)
(* Every handler is one atomic action.  The inputs a handler receives from  *)
(* the plugin framework (configuration, plan, import id, and whether the    *)
(* framework's Get/Set conversions report an error diagnostic) are chosen   *)
(* with \E from the small sets below.                                       *)
EXTENDS Naturals, Sequences, FiniteSets, TLC

--------------------------------------------------------------------------
(* types.String: a value is null, unknown, or a known string.              *)
(* ValueString() of a null or unknown value is "".                         *)

Null == [kind |-> "null", value |-> ""]

Unknown == [kind |-> "unknown", value |-> ""]

StringValue(s) == [kind |-> "known", value |-> s]

IsNull(v) == v.kind = "null"

IsUnknown(v) == v.kind = "unknown"

ValueString(v) == IF v.kind = "known" THEN v.value ELSE ""

--------------------------------------------------------------------------
(* Input sets.                                                             *)

ConfigHosts == {Null, Unknown} \cup {StringValue(s) : s \in {"", "localhost"}}

ConfigPorts == {Null, Unknown} \cup {StringValue(s) : s \in {"", "7233"}}

ConfigInputs == [Host : ConfigHosts, Port : ConfigPorts]

EnvInputs == [TEMPORAL_HOST : {"", "temporal.internal"},
              TEMPORAL_PORT : {"", "7234"}]

Names == {"billing", "orders"}

Descriptions == {Unknown, StringValue("")}

OwnerEmails == {StringValue("")}

ImportIds == {"ns-123"}

RemoteInputs == [ids : SUBSET ImportIds, avail : BOOLEAN]

--------------------------------------------------------------------------
(* Diagnostics: a list of entries, each with a severity, an optional       *)
(* attribute path ("" when the entry is not attribute-scoped), a summary.  *)

AttributeError(attr, summary) ==
    [severity |-> "error", attr |-> attr, summary |-> summary]

Error(summary) == [severity |-> "error", attr |-> "", summary |-> summary]

HasError(diags) == \E i \in 1..Len(diags) : diags[i].severity = "error"

AttrErrors(diags, attr) ==
    {i \in 1..Len(diags) : diags[i].severity = "error" /\ diags[i].attr = attr}

--------------------------------------------------------------------------
VARIABLES
    env,           \* process environment: TEMPORAL_HOST, TEMPORAL_PORT
    pstage,        \* "new" until provider Configure has run, then "configured"
    config,        \* req.Config of the provider Configure call
    resolved,      \* locals host, port of provider Configure (once assigned)
    provDiags,     \* resp.Diagnostics of provider Configure
    dialLog,       \* endpoints passed to grpc.Dial
    resourceData,  \* resp.ResourceData published by provider Configure
    rstage,        \* "new" until NamespaceResource.Configure has run
    providerData,  \* req.ProviderData of NamespaceResource.Configure
    client,        \* NamespaceResource.client
    rcfgDiags,     \* resp.Diagnostics of NamespaceResource.Configure
    remote,        \* the remote control plane: ids that exist, availability
    remoteCalls,   \* calls the handlers issued to the remote, with answers
    tfstate,       \* the resource state held by the host runtime
    importedId,    \* id handed to the latest ImportState, Null when none
    resDiags,      \* resp.Diagnostics of the latest resource handler
    last           \* the latest resource handler call and its inputs

providerVars == <<env, pstage, config, resolved, provDiags, dialLog,
                  resourceData, rstage, providerData, client, rcfgDiags>>

resourceVars == <<remote, remoteCalls, tfstate, importedId, resDiags, last>>

vars == <<providerVars, resourceVars>>

--------------------------------------------------------------------------
(* provider.go                                                             *)

NilHandle == [type |-> "nil", target |-> ""]

NotResolved == [reached |-> FALSE, host |-> "", port |-> ""]

ConfigGetDiags(fault) ==
    IF fault THEN <<Error("Config.Get")>> ELSE <<>>

UnknownDiagsHostOnly(cfg) ==
    IF IsUnknown(cfg.Host)
      THEN <<AttributeError("host", "Unknown Tmeporal Frontend Host")>>
      ELSE <<>>

UnknownDiags(cfg) ==
    (IF IsUnknown(cfg.Host)
       THEN <<AttributeError("host", "Unknown Tmeporal Frontend Host")>>
       ELSE <<>>)
    \o
    (IF IsUnknown(cfg.Port)
       THEN <<AttributeError("port", "Unknown Temporal Frontend Port")>>
       ELSE <<>>)

ResolveHostEnvFirst(cfg, e) ==
    IF e.TEMPORAL_HOST # "" THEN e.TEMPORAL_HOST ELSE ValueString(cfg.Host)

ResolveHost(cfg, e) ==
    IF ~IsNull(cfg.Host) THEN ValueString(cfg.Host) ELSE e.TEMPORAL_HOST

ResolvePort(cfg, e) ==
    IF ~IsNull(cfg.Port) THEN ValueString(cfg.Port) ELSE e.TEMPORAL_PORT

MissingDiagsHostTwice(host, port) ==
    (IF host = ""
       THEN <<AttributeError("host", "Missing Temporal Frontend Host")>>
       ELSE <<>>)
    \o
    (IF host = ""
       THEN <<AttributeError("port", "Missing Temporal Frontend Port")>>
       ELSE <<>>)

MissingDiags(host, port) ==
    (IF host = ""
       THEN <<AttributeError("host", "Missing Temporal Frontend Host")>>
       ELSE <<>>)
    \o
    (IF port = ""
       THEN <<AttributeError("port", "Missing Temporal Frontend Port")>>
       ELSE <<>>)

Endpoint(host, port) == host \o ":" \o port

GrpcDial(endpoint, fault) ==
    IF fault
      THEN [client |-> NilHandle, err |-> TRUE]
      ELSE [client |-> [type |-> "*grpc.ClientConn", target |-> endpoint],
            err |-> FALSE]

\* The whole of TemporalProvider.Configure: the response and the locals.
ConfigureResult(cfg, e, getFault, dialFault) ==
    LET d0 == ConfigGetDiags(getFault) IN
    IF HasError(d0)
      THEN [diags |-> d0, resolved |-> NotResolved, dials |-> <<>>,
            resourceData |-> NilHandle]
      ELSE
    LET d1 == d0 \o UnknownDiags(cfg) IN
    IF HasError(d1)
      THEN [diags |-> d1, resolved |-> NotResolved, dials |-> <<>>,
            resourceData |-> NilHandle]
      ELSE
    LET host == ResolveHost(cfg, e)
        port == ResolvePort(cfg, e)
        res  == [reached |-> TRUE, host |-> host, port |-> port]
        d2   == d1 \o MissingDiags(host, port)
    IN
    IF HasError(d2)
      THEN [diags |-> d2, resolved |-> res, dials |-> <<>>,
            resourceData |-> NilHandle]
      ELSE
    LET endpoint == Endpoint(host, port)
        dial     == GrpcDial(endpoint, dialFault)
    IN
    IF dial.err
      THEN [diags |-> d2 \o <<Error("Unable to Create Temporal API Client")>>,
            resolved |-> res, dials |-> <<endpoint>>,
            resourceData |-> NilHandle]
      ELSE [diags |-> d2, resolved |-> res, dials |-> <<endpoint>>,
            resourceData |-> dial.client]

ProviderConfigure ==
    /\ pstage = "new"
    /\ \E cfg \in ConfigInputs, getFault \in BOOLEAN, dialFault \in BOOLEAN :
         LET r == ConfigureResult(cfg, env, getFault, dialFault) IN
         /\ config' = cfg
         /\ resolved' = r.resolved
         /\ provDiags' = r.diags
         /\ dialLog' = dialLog \o r.dials
         /\ resourceData' = r.resourceData
    /\ pstage' = "configured"
    /\ UNCHANGED <<env, rstage, providerData, client, rcfgDiags>>
    /\ UNCHANGED resourceVars

--------------------------------------------------------------------------
(* namespace_resource.go: Configure                                        *)

\* req.ProviderData.(*http.Client)
AssertHttpClient(data) == data.type = "*http.Client"

ResourceConfigureResult(data, old) ==
    IF data = NilHandle
      THEN [diags |-> <<>>, client |-> old]
      ELSE IF ~AssertHttpClient(data)
        THEN [diags |-> <<Error("Unexpected Resource Configure Type")>>,
              client |-> old]
        ELSE [diags |-> <<>>, client |-> data]

NamespaceConfigure ==
    /\ rstage = "new"
    /\ LET r == ResourceConfigureResult(resourceData, client) IN
         /\ providerData' = resourceData
         /\ rcfgDiags' = r.diags
         /\ client' = r.client
    /\ rstage' = "configured"
    /\ UNCHANGED <<env, pstage, config, resolved, provDiags, dialLog,
                   resourceData>>
    /\ UNCHANGED resourceVars

--------------------------------------------------------------------------
(* namespace_resource.go: the resource data model and the state            *)
(* The attributes followed are name, description, owner_email (inputs)     *)
(* and id, state (computed).  A resource state is absent (a null object)   *)
(* or present with a value for each attribute.                             *)

NullAttrs == [name |-> Null, description |-> Null, owner_email |-> Null,
              id |-> Null, state |-> Null]

NoState == [present |-> FALSE, attrs |-> NullAttrs]

StateOf(data) == [present |-> TRUE, attrs |-> data]

\* A plan for Create or Update: the inputs as configured; a computed
\* attribute is unknown, or in an update may carry the prior value.
PlanInputs(prior) ==
    {[name |-> StringValue(n), description |-> d, owner_email |-> o,
      id |-> c.id, state |-> c.state] :
        n \in Names, d \in Descriptions, o \in OwnerEmails,
        c \in {[id |-> Unknown, state |-> Unknown]} \cup
              (IF prior.present
                 THEN {[id |-> prior.attrs.id, state |-> prior.attrs.state]}
                 ELSE {})}

\* req.Plan.Get(ctx, &data)
PlanGet(plan, fault) ==
    IF fault
      THEN [diags |-> <<Error("Plan.Get")>>, data |-> NullAttrs]
      ELSE [diags |-> <<>>, data |-> plan]

\* req.State.Get(ctx, &data): a null object does not convert to the struct.
StateGet(st, fault) ==
    IF fault \/ ~st.present
      THEN [diags |-> <<Error("State.Get")>>, data |-> NullAttrs]
      ELSE [diags |-> <<>>, data |-> st.attrs]

\* resp.Diagnostics.Append(resp.State.Set(ctx, &data)...): on a conversion
\* error the state keeps its value.
StateSet(st, data, diags, fault) ==
    IF fault
      THEN [diags |-> diags \o <<Error("State.Set")>>, state |-> st]
      ELSE [diags |-> diags, state |-> StateOf(data)]

--------------------------------------------------------------------------
(* namespace_resource.go: Create, Read, Update, Delete, ImportState        *)
(* Each result is [diags, state, calls]: the response diagnostics, the     *)
(* resource state after the call and the remote calls issued.  The client  *)
(* calls are commented out in every handler, so calls is empty.            *)

CreateResult(st, plan, getFault, setFault) ==
    LET get == PlanGet(plan, getFault) IN
    IF HasError(get.diags)
      THEN [diags |-> get.diags, state |-> st, calls |-> <<>>]
      ELSE LET data == [get.data EXCEPT !.id = StringValue("example-id")]
               set  == StateSet(st, data, get.diags, setFault)
           IN [diags |-> set.diags, state |-> set.state, calls |-> <<>>]

ReadResult(st, getFault, setFault) ==
    LET get == StateGet(st, getFault) IN
    IF HasError(get.diags)
      THEN [diags |-> get.diags, state |-> st, calls |-> <<>>]
      ELSE LET set == StateSet(st, get.data, get.diags, setFault)
           IN [diags |-> set.diags, state |-> set.state, calls |-> <<>>]

UpdateResultNoReturn(st, plan, getFault, setFault) ==
    LET get == PlanGet(plan, getFault)
        set == StateSet(st, plan, get.diags, setFault)
    IN [diags |-> set.diags, state |-> set.state, calls |-> <<>>]

UpdateResult(st, plan, getFault, setFault) ==
    LET get == PlanGet(plan, getFault) IN
    IF HasError(get.diags)
      THEN [diags |-> get.diags, state |-> st, calls |-> <<>>]
      ELSE LET set == StateSet(st, get.data, get.diags, setFault)
           IN [diags |-> set.diags, state |-> set.state, calls |-> <<>>]

DeleteDiagsNotFound(st, getFault, rem) ==
    LET get == StateGet(st, getFault) IN
    IF HasError(get.diags) \/ ValueString(get.data.id) \in rem.ids
      THEN get.diags
      ELSE get.diags \o <<Error("Client Error")>>

\* The handler's own diagnostics; rem is the remote system, which the
\* handler does not consult.
DeleteDiags(st, getFault, rem) == StateGet(st, getFault).diags

\* The host runtime removes the state when Delete returns no error.
DeleteResult(st, getFault, rem) ==
    LET diags == DeleteDiags(st, getFault, rem) IN
    IF HasError(diags)
      THEN [diags |-> diags, state |-> st, calls |-> <<>>]
      ELSE [diags |-> diags, state |-> NoState, calls |-> <<>>]

\* resource.ImportStatePassthroughID(ctx, path.Root("id"), req, resp):
\* the id attribute of an otherwise null state is set to req.ID.
ImportStateResult(st, id, setFault) ==
    StateSet(NoState, [NullAttrs EXCEPT !.id = StringValue(id)], <<>>, setFault)
      @@ [calls |-> <<>>]

Call(op, prior, plan, id, fault) ==
    [op |-> op, prevOp |-> last.op, prior |-> prior, plan |-> plan,
     id |-> id, fault |-> fault, calls |-> <<>>]

Finish(r, call) ==
    /\ tfstate' = r.state
    /\ resDiags' = r.diags
    /\ remoteCalls' = remoteCalls \o r.calls
    /\ last' = [call EXCEPT !.calls = r.calls]
    /\ UNCHANGED remote
    /\ UNCHANGED providerVars

Create ==
    \E plan \in PlanInputs(NoState), getFault \in BOOLEAN, setFault \in BOOLEAN :
      /\ Finish(CreateResult(tfstate, plan, getFault, setFault),
                Call("Create", tfstate, plan, "", getFault \/ setFault))
      /\ UNCHANGED importedId

Read ==
    \E getFault \in BOOLEAN, setFault \in BOOLEAN :
      /\ Finish(ReadResult(tfstate, getFault, setFault),
                Call("Read", tfstate, NullAttrs, "", getFault \/ setFault))
      /\ UNCHANGED importedId

Update ==
    \E plan \in PlanInputs(tfstate), getFault \in BOOLEAN, setFault \in BOOLEAN :
      /\ Finish(UpdateResult(tfstate, plan, getFault, setFault),
                Call("Update", tfstate, plan, "", getFault \/ setFault))
      /\ UNCHANGED importedId

Delete ==
    \E getFault \in BOOLEAN :
      /\ Finish(DeleteResult(tfstate, getFault, remote),
                Call("Delete", tfstate, NullAttrs, "", getFault))
      /\ UNCHANGED importedId

ImportState ==
    \E id \in ImportIds, setFault \in BOOLEAN :
      /\ Finish(ImportStateResult(tfstate, id, setFault),
                Call("ImportState", tfstate, NullAttrs, id, setFault))
      /\ importedId' = StringValue(id)

--------------------------------------------------------------------------
(* Specifications                                                          *)

NoCall == [op |-> "none", prevOp |-> "none", prior |-> NoState,
           plan |-> NullAttrs, id |-> "", fault |-> FALSE, calls |-> <<>>]

InitProvider ==
    /\ pstage = "new"
    /\ config = [Host |-> Null, Port |-> Null]
    /\ resolved = NotResolved
    /\ provDiags = <<>>
    /\ dialLog = <<>>
    /\ resourceData = NilHandle
    /\ rstage = "new"
    /\ providerData = NilHandle
    /\ client = NilHandle
    /\ rcfgDiags = <<>>

InitResource ==
    /\ remoteCalls = <<>>
    /\ tfstate = NoState
    /\ importedId = Null
    /\ resDiags = <<>>
    /\ last = NoCall

\* Provider start-up: the environment is any of EnvInputs.
ProviderInit ==
    /\ env \in EnvInputs
    /\ remote = [ids |-> {}, avail |-> TRUE]
    /\ InitProvider
    /\ InitResource

ProviderNext == ProviderConfigure \/ NamespaceConfigure

ProviderSpec == ProviderInit /\ [][ProviderNext]_vars

\* Resource lifecycle: the remote system is any of RemoteInputs.
LifecycleInit ==
    /\ env = [TEMPORAL_HOST |-> "", TEMPORAL_PORT |-> ""]
    /\ remote \in RemoteInputs
    /\ InitProvider
    /\ InitResource

LifecycleNext == Create \/ Read \/ Update \/ Delete \/ ImportState

LifecycleSpec == LifecycleInit /\ [][LifecycleNext]_vars

--------------------------------------------------------------------------
(* Properties of provider Configure (ProviderSpec)                         *)

ConfigDecoded ==
    \A i \in 1..Len(provDiags) : provDiags[i].summary # "Config.Get"

SummaryErrors(diags, attr, summary) ==
    {i \in AttrErrors(diags, attr) : diags[i].summary = summary}

AttributeScoped(diags) == {i \in 1..Len(diags) : diags[i].attr # ""}

\* C1: for host and port independently, the resolved value is the
\* configuration value whenever that value is non-null, also when the
\* environment variable is set, and the environment variable's value only
\* when the configuration value is null; an empty resolved value makes
\* Configure fail and publish no client handle.
C1_ResolutionOrder ==
    (pstage = "configured" /\ resolved.reached) =>
        /\ resolved.host = (IF config.Host.kind = "null"
                              THEN env.TEMPORAL_HOST ELSE config.Host.value)
        /\ resolved.port = (IF config.Port.kind = "null"
                              THEN env.TEMPORAL_PORT ELSE config.Port.value)
        /\ (resolved.host = "" \/ resolved.port = "") =>
               (HasError(provDiags) /\ resourceData = NilHandle)

C1_Witness ==
    /\ pstage = "configured"
    /\ resolved.reached
    /\ config.Host = StringValue("localhost")
    /\ env.TEMPORAL_HOST = "temporal.internal"
    /\ resolved.host = "localhost"
    /\ config.Port = Null
    /\ resolved.port = "7234"
    /\ resourceData # NilHandle

\* C2: with known (null or string) host and port configuration values,
\* Configure emits one attribute-scoped "missing" error for host exactly
\* when the resolved host is empty, and one for port exactly when the
\* resolved port is empty, never more than one each; the configuration
\* {host: "", port: "7233"} with an empty environment yields exactly one
\* attribute-scoped error, for host.
C2_MissingErrors ==
    (/\ pstage = "configured"
     /\ ConfigDecoded
     /\ ~IsUnknown(config.Host)
     /\ ~IsUnknown(config.Port)) =>
        /\ resolved.reached
        /\ Cardinality(SummaryErrors(provDiags, "host",
                                     "Missing Temporal Frontend Host"))
             = (IF resolved.host = "" THEN 1 ELSE 0)
        /\ Cardinality(SummaryErrors(provDiags, "port",
                                     "Missing Temporal Frontend Port"))
             = (IF resolved.port = "" THEN 1 ELSE 0)
        /\ Cardinality(AttrErrors(provDiags, "host")) <= 1
        /\ Cardinality(AttrErrors(provDiags, "port")) <= 1
        /\ (/\ config = [Host |-> StringValue(""), Port |-> StringValue("7233")]
            /\ env = [TEMPORAL_HOST |-> "", TEMPORAL_PORT |-> ""]) =>
               /\ Cardinality(AttributeScoped(provDiags)) = 1
               /\ Cardinality(AttrErrors(provDiags, "host")) = 1

C2_Witness ==
    /\ pstage = "configured"
    /\ ConfigDecoded
    /\ config = [Host |-> StringValue(""), Port |-> StringValue("7233")]
    /\ env = [TEMPORAL_HOST |-> "", TEMPORAL_PORT |-> ""]
    /\ provDiags = <<AttributeError("host", "Missing Temporal Frontend Host")>>

\* C9: after a provider Configure that ended without error, the namespace
\* resource's Configure accepts the published handle: it adds no error
\* diagnostic and stores that handle as its client.
C9_HandleAccepted ==
    (rstage = "configured" /\ providerData # NilHandle) =>
        /\ ~HasError(rcfgDiags)
        /\ client = providerData

\* C10: an unknown host or port makes Configure add one attribute-scoped
\* error for each unknown attribute and stop: the environment is not
\* consulted, no connection is opened and no client handle is published;
\* and a connection is opened only when no error diagnostic was raised
\* before the dial.
C10_UnknownStops ==
    /\ (/\ pstage = "configured"
        /\ ConfigDecoded
        /\ (IsUnknown(config.Host) \/ IsUnknown(config.Port))) =>
           /\ Cardinality(SummaryErrors(provDiags, "host",
                                        "Unknown Tmeporal Frontend Host"))
                = (IF IsUnknown(config.Host) THEN 1 ELSE 0)
           /\ Cardinality(SummaryErrors(provDiags, "port",
                                        "Unknown Temporal Frontend Port"))
                = (IF IsUnknown(config.Port) THEN 1 ELSE 0)
           /\ Len(provDiags) = Cardinality(AttributeScoped(provDiags))
           /\ Cardinality(AttrErrors(provDiags, "host")) <= 1
           /\ Cardinality(AttrErrors(provDiags, "port")) <= 1
           /\ ~resolved.reached
           /\ dialLog = <<>>
           /\ resourceData = NilHandle
    /\ dialLog # <<>> =>
           \A i \in 1..Len(provDiags) :
               provDiags[i].summary = "Unable to Create Temporal API Client"

C10_Witness ==
    /\ pstage = "configured"
    /\ ConfigDecoded
    /\ IsUnknown(config.Host)
    /\ config.Port = StringValue("7233")
    /\ env.TEMPORAL_HOST = "temporal.internal"
    /\ provDiags = <<AttributeError("host", "Unknown Tmeporal Frontend Host")>>
    /\ resourceData = NilHandle

--------------------------------------------------------------------------
(* Properties of the resource lifecycle (LifecycleSpec)                    *)

ReturnedIds == {remoteCalls[i].id : i \in 1..Len(remoteCalls)}

CreateCalls(calls) == {i \in 1..Len(calls) : calls[i].op = "Create"}

AbsentRemotely(st) == ValueString(st.attrs.id) \notin remote.ids

\* C3: the id recorded in the resource state is unset or was returned by
\* the remote system (an id handed over by the caller for import is the
\* caller's, not the reconciler's); Create never writes an id of its own.
C3_IdAssignedByRemote ==
    (tfstate.present /\ tfstate.attrs.id.kind = "known") =>
        \/ tfstate.attrs.id.value \in ReturnedIds
        \/ tfstate.attrs.id = importedId

\* C4: a successful Create on a resource with no prior state has issued
\* exactly one remote Create call, and the recorded state has id set,
\* state "Registered" and the name of the plan.
C4_CreateRegisters ==
    (/\ last.op = "Create"
     /\ ~last.prior.present
     /\ remote.avail
     /\ ~HasError(resDiags)) =>
        /\ Cardinality(CreateCalls(last.calls)) = 1
        /\ tfstate.present
        /\ tfstate.attrs.id.kind = "known"
        /\ tfstate.attrs.state = StringValue("Registered")
        /\ tfstate.attrs.name = last.plan.name

\* C5: a Delete of a resource that is absent remotely, whose prior state
\* was read without an error diagnostic, ends with no error diagnostic and
\* with the resource state absent; and a Delete that follows a Delete which
\* left the state absent leaves it absent.
C5_DeleteIdempotent ==
    last.op = "Delete" =>
        /\ (last.prior.present /\ ~last.fault /\ AbsentRemotely(last.prior)) =>
               (~HasError(resDiags) /\ tfstate = NoState)
        /\ (last.prevOp = "Delete" /\ ~last.prior.present) =>
               tfstate = NoState

C5_Witness ==
    /\ last.op = "Delete"
    /\ last.prior.present
    /\ last.prior.attrs.id.kind = "known"
    /\ AbsentRemotely(last.prior)
    /\ ~last.fault
    /\ resDiags = <<>>
    /\ tfstate = NoState

\* C6: an Update that ends with an error diagnostic leaves the resource
\* state equal, field for field, to the state before the call.
C6_FailedUpdateKeepsState ==
    (last.op = "Update" /\ HasError(resDiags)) => tfstate = last.prior

C6_Witness ==
    /\ last.op = "Update"
    /\ HasError(resDiags)
    /\ last.prior.present
    /\ last.plan.name # last.prior.attrs.name
    /\ last.plan.description # last.prior.attrs.description
    /\ tfstate = last.prior

\* C7: after ImportState of an id the remote system does not hold,
\* followed by Read, the Read reports a failure and no resource state
\* holding that id exists.
C7_ImportNotFound ==
    (/\ last.op = "Read"
     /\ last.prevOp = "ImportState"
     /\ ValueString(importedId) \notin remote.ids) =>
        /\ HasError(resDiags)
        /\ ~(tfstate.present /\ tfstate.attrs.id = importedId)

\* C8: a Create, Update, Read or Delete that runs while the remote system
\* answers Unavailable to every attempt has made at least one attempt and
\* ends with the failure surfaced as an error diagnostic.
C8_UnavailableSurfaced ==
    (/\ last.op \in {"Create", "Read", "Update", "Delete"}
     /\ last.op # "Create" => last.prior.present
     /\ ~last.fault
     /\ ~remote.avail) =>
        /\ Len(last.calls) >= 1
        /\ HasError(resDiags)

==========================================================================
